---- MODULE Spec2Model ----
(***************************************************************************)
(* A model of lib/router/route.js: the Route of gophress (an Express       *)
(* fork).  A Route owns an ordered stack of layers; all() and get()        *)
(* append layers, dispatch() walks the stack through the continuation      *)
(* next(err).  The continuation is one closure per dispatch that every     *)
(* handler receives and may keep, so any invoked handler may call it at    *)
(* any later moment: synchronously, before dispatch has returned to its    *)
(* caller, or from a callback in a later turn of the event loop.  A        *)
(* handler invocation calls it once, never (it answers the request         *)
(* itself), or twice in a row (next(v); next()).                           *)
(*                                                                         *)
(* Spec is the route with handlers free to do any of these.  SpecTwo adds  *)
(* a second dispatch of the same route for another request.  SpecContract  *)
(* is the route with handlers that obey the Layer contract: each calls     *)
(* the continuation exactly once, sooner or later.                         *)
(***************************************************************************)
EXTENDS Integers, Sequences, FiniteSets, TLC

\* ---------------------------------------------------------------- bounds
\* longest stack the registration calls may build
MaxStack == 3
\* how many handler invocations of one dispatch call the continuation twice
MaxReentry == 1

\* ---------------------------------------------------------------- values
\* handler functions: arity 3 (req, res, next) and arity 4 (err, req, res, next)
NormalFuncs == {"h1"}
ErrorFuncs == {"e1"}
Funcs == NormalFuncs \cup ErrorFuncs
\* values that are not functions: 42 and null
NonFuncs == {"num", "nul"}
Values == Funcs \cup NonFuncs

\* values a handler passes to its continuation: nothing (undefined), null,
\* the two sentinels, two distinct error objects, and the falsy 0, false, ''
Sentinels == {"route", "router"}
Errors == {"E1", "E2"}
FalsyPresent == {"zero", "false", "empty"}
NextArgs == {"undef", "null"} \cup Sentinels \cup Errors \cup FalsyPresent

\* a test for presence in place of truthiness (`err != null`)
Truthy_present(v) == v \notin {"undef", "null"}

\* JavaScript truthiness, as tested by `if (err)` and `err && ...`
Truthy(v) == v \in Sentinels \cup Errors

\* fn.length of a handler
Arity(h) == IF h \in ErrorFuncs THEN 4 ELSE 3

\* typeof handle === 'function'
IsFunction(v) == v \in Funcs

\* Object.prototype.toString.call(handle)
toString(v) ==
  CASE v = "num" -> "[object Number]"
    [] v = "nul" -> "[object Null]"
    [] OTHER -> "[object Function]"

\* ---------------------------------------------------------------- arguments
\* an argument of all()/get(): a value, or an array of arguments
Leaf(v) == [isArr |-> FALSE, val |-> v, items |-> <<>>]
Arr(s) == [isArr |-> TRUE, val |-> "array", items |-> s]

Leaves == {Leaf(v) : v \in Values}
Items ==
  Leaves \cup {Arr(<<>>)} \cup {Arr(<<a>>) : a \in Leaves}
         \cup {Arr(<<a, Arr(<<b>>)>>) : a \in Leaves, b \in Leaves}
ArgLists == {<<x>> : x \in Items} \cup {<<x, y>> : x \in Leaves, y \in Items}

\* flatten(array): depth-first, left to right, arrays of any depth
RECURSIVE flatten(_)
flatten(s) ==
  IF s = <<>> THEN <<>>
  ELSE LET x == Head(s)
       IN (IF x.isArr THEN flatten(x.items) ELSE <<x.val>>) \o flatten(Tail(s))

\* ---------------------------------------------------------------- state
VARIABLES
  stack,      \* this.stack: the layers, in order
  before,     \* this.stack as it was when the most recent call on the route began
  lastCall,   \* what the most recent call on the route did for its caller
  phase,      \* "setup", then "running" inside dispatch, then "returned"
  idx,        \* the dispatch cursor
  reqRoute,   \* req.route
  log,        \* what the dispatch did, in order
  acts,       \* the handler invocations of the dispatch
  payload,    \* the rest of req and of res
  other,      \* a second dispatch of the route, for another request
  xfer,       \* a file transfer of the response: res.sendFile and sendfile
  conn        \* the connection of the response, as res.end and res.send use it

vars ==
  <<stack, before, lastCall, phase, idx, reqRoute, log, acts, payload, other,
    xfer, conn>>

\* Layer('/', {}, handle)
Layer(handle) == [handle |-> handle]

\* one entry of the log: a continuation call ("next") by the handler at pos,
\* a layer invocation ("invoke"), a handler function called ("run"), or a
\* call of done ("done")
Ev(ev, pos, mode, arg, argc, h) ==
  [ev |-> ev, pos |-> pos, mode |-> mode, arg |-> arg, argc |-> argc, h |-> h]

\* req and res as the caller of dispatch handed them over
AsReceived == [req |-> "as received", res |-> "as received"]

\* no second dispatch has been started
NoDispatch ==
  [phase |-> "none", idx |-> 0, reqRoute |-> "unset", log |-> <<>>, acts |-> <<>>]

\* res.sendFile has not been called
NoTransfer ==
  [state |-> "idle", done |-> "none", fin |-> FALSE, streaming |-> "undefined",
   immediates |-> 0, callbacks |-> <<>>, doneCalls |-> <<>>, nextCalls |-> <<>>]

\* the connection before res.end or res.send is called
OpenConnection ==
  [ops |-> <<>>, calls |-> 0,
   last |-> [method |-> "none", chunk |-> "undefined", encoding |-> "undefined",
             callback |-> "undefined", status |-> "none"]]

NoCall ==
  [method |-> "none", handles |-> <<>>, status |-> "none", kind |-> "none",
   msg |-> <<>>]

Init ==
  /\ stack = <<>>
  /\ before = <<>>
  /\ lastCall = NoCall
  /\ phase = "setup"
  /\ idx = 0
  /\ reqRoute = "unset"
  /\ log = <<>>
  /\ acts = <<>>
  /\ payload = AsReceived
  /\ other = NoDispatch
  /\ xfer = NoTransfer
  /\ conn = OpenConnection

\* ---------------------------------------------------------------- registration
\* all() that puts each layer in front (`this.stack.unshift(layer)`)
RECURSIVE allLoop_unshift(_, _, _)
allLoop_unshift(stk, handles, i) ==
  IF i > Len(handles)
  THEN [stack |-> stk,
        result |-> [method |-> "all", handles |-> handles,
                    status |-> "returned this", kind |-> "none", msg |-> <<>>]]
  ELSE LET handle == handles[i]
       IN IF ~IsFunction(handle)
          THEN [stack |-> stk,
                result |-> [method |-> "all", handles |-> handles,
                            status |-> "threw", kind |-> "TypeError",
                            msg |-> <<"Route.all() requires a callback function but got a ",
                                      toString(handle)>>]]
          ELSE allLoop_unshift(<<Layer(handle)>> \o stk, handles, i + 1)

\* the loop of all(), from handles[i] on: validate and push handle by handle;
\* a throw leaves the loop with the stack as it is by then
RECURSIVE allLoop(_, _, _)
allLoop(stk, handles, i) ==
  IF i > Len(handles)
  THEN [stack |-> stk,
        result |-> [method |-> "all", handles |-> handles,
                    status |-> "returned this", kind |-> "none", msg |-> <<>>]]
  ELSE LET handle == handles[i]
       IN IF ~IsFunction(handle)
          THEN [stack |-> stk,
                result |-> [method |-> "all", handles |-> handles,
                            status |-> "threw", kind |-> "TypeError",
                            msg |-> <<"Route.all() requires a callback function but got a ",
                                      toString(handle)>>]]
          ELSE allLoop(Append(stk, Layer(handle)), handles, i + 1)

\* get() that returns after the first handler (`return this` inside the
\* loop)
getLoop_first(stk, handles, i) ==
  IF i > Len(handles)
  THEN [stack |-> stk,
        result |-> [method |-> "get", handles |-> handles,
                    status |-> "returned this", kind |-> "none", msg |-> <<>>]]
  ELSE LET handle == handles[i]
       IN IF ~IsFunction(handle)
          THEN [stack |-> stk,
                result |-> [method |-> "get", handles |-> handles,
                            status |-> "threw", kind |-> "Error",
                            msg |-> <<"Route.get() requires a callback function but got a ",
                                      toString(handle)>>]]
          ELSE [stack |-> Append(stk, Layer(handle)),
                result |-> [method |-> "get", handles |-> handles,
                            status |-> "returned this", kind |-> "none",
                            msg |-> <<>>]]

\* the loop of get()
RECURSIVE getLoop(_, _, _)
getLoop(stk, handles, i) ==
  IF i > Len(handles)
  THEN [stack |-> stk,
        result |-> [method |-> "get", handles |-> handles,
                    status |-> "returned this", kind |-> "none", msg |-> <<>>]]
  ELSE LET handle == handles[i]
       IN IF ~IsFunction(handle)
          THEN [stack |-> stk,
                result |-> [method |-> "get", handles |-> handles,
                            status |-> "threw", kind |-> "Error",
                            msg |-> <<"Route.get() requires a callback function but got a ",
                                      toString(handle)>>]]
          ELSE getLoop(Append(stk, Layer(handle)), handles, i + 1)

\* Route.prototype.all
all(args) ==
  /\ phase = "setup"
  /\ Len(stack) + Len(flatten(args)) <= MaxStack
  /\ LET r == allLoop(stack, flatten(args), 1)
     IN /\ stack' = r.stack
        /\ lastCall' = r.result
  /\ before' = stack
  /\ UNCHANGED <<phase, idx, reqRoute, log, acts, payload, other, xfer, conn>>

\* Route.prototype.get
get(args) ==
  /\ phase = "setup"
  /\ Len(stack) + Len(flatten(args)) <= MaxStack
  /\ LET r == getLoop(stack, flatten(args), 1)
     IN /\ stack' = r.stack
        /\ lastCall' = r.result
  /\ before' = stack
  /\ UNCHANGED <<phase, idx, reqRoute, log, acts, payload, other, xfer, conn>>

\* ---------------------------------------------------------------- dispatch
\* the dispatch's own state, as one record the continuation transforms, with
\* req.route as the handlers it calls see it
Cur == [idx |-> idx, log |-> log, acts |-> acts, route |-> reqRoute]

\* done() without an argument (lines 58 and 68)
done0(d) ==
  [d EXCEPT !.log = Append(@, Ev("done", -1, "none", "undef", 0, "none"))]

\* done(err) (lines 73 and 78)
done1(d, err) ==
  [d EXCEPT !.log = Append(@, Ev("done", -1, "none", err, 1, "none"))]

\* the handler function of a layer is called: a new handler invocation, which
\* sees req.route as it is by then
run(d, pos, mode, err) ==
  [d EXCEPT !.log = Append(@, Ev("run", pos, mode, err, 0, stack[pos + 1].handle)),
            !.acts = Append(@, [pos |-> pos, mode |-> mode, err |-> err,
                                calls |-> 0, ended |-> FALSE, seen |-> d.route])]

RECURSIVE next(_, _), handle_error(_, _, _), handle_request(_, _)

\* Layer.prototype.handle_error: a handler that is not error-capable passes
\* the error on
handle_error(d, pos, err) ==
  LET d1 == [d EXCEPT !.log = Append(@, Ev("invoke", pos, "error", err, 0,
                                            stack[pos + 1].handle))]
  IN IF Arity(stack[pos + 1].handle) # 4
     THEN next(d1, err)
     ELSE run(d1, pos, "error", err)

\* Layer.prototype.handle_request: an error-capable handler passes on
handle_request(d, pos) ==
  LET d1 == [d EXCEPT !.log = Append(@, Ev("invoke", pos, "request", "undef", 0,
                                            stack[pos + 1].handle))]
  IN IF Arity(stack[pos + 1].handle) > 3
     THEN next(d1, "undef")
     ELSE run(d1, pos, "request", "undef")

\* next() with the `return` of line 73 lost: after done('router') the walk
\* goes on
next_noReturn(d, err) ==
  IF Truthy(err) /\ err = "route" THEN done0(d)
  ELSE LET d0 == IF Truthy(err) /\ err = "router" THEN done1(d, err) ELSE d
           pos == d0.idx
           d1 == [d0 EXCEPT !.idx = @ + 1]
       IN IF pos >= Len(stack) THEN done1(d1, err)
          ELSE IF Truthy(err) THEN handle_error(d1, pos, err)
          ELSE handle_request(d1, pos)

\* next() with the cursor advanced by two (`idx += 2`)
next_skipOne(d, err) ==
  IF Truthy(err) /\ err = "route" THEN done0(d)
  ELSE IF Truthy(err) /\ err = "router" THEN done1(d, err)
  ELSE LET pos == d.idx
           d1 == [d EXCEPT !.idx = @ + 2]
       IN IF pos >= Len(stack) THEN done1(d1, err)
          ELSE IF Truthy(err) THEN handle_error(d1, pos, err)
          ELSE handle_request(d1, pos)

\* next() with the error lost at the end of the stack (`done()` on line 78)
next_losesError(d, err) ==
  IF Truthy(err) /\ err = "route" THEN done0(d)
  ELSE IF Truthy(err) /\ err = "router" THEN done1(d, err)
  ELSE LET pos == d.idx
           d1 == [d EXCEPT !.idx = @ + 1]
       IN IF pos >= Len(stack) THEN done0(d1)
          ELSE IF Truthy(err) THEN handle_error(d1, pos, err)
          ELSE handle_request(d1, pos)

\* the error of the most recent error-mode layer invocation
PendingError(d) ==
  LET E == {k \in 1..Len(d.log) : d.log[k].ev = "invoke" /\ d.log[k].mode = "error"}
  IN IF E = {} THEN "undef"
     ELSE d.log[CHOOSE k \in E : \A m \in E : m <= k].arg

\* next() with a sticky error: a call without an argument keeps the error
\* that was pending (`err = err || pending`)
next_sticky(d, err) ==
  LET e == IF err = "undef" THEN PendingError(d) ELSE err
  IN IF Truthy(e) /\ e = "route" THEN done0(d)
     ELSE IF Truthy(e) /\ e = "router" THEN done1(d, e)
     ELSE LET pos == d.idx
              d1 == [d EXCEPT !.idx = @ + 1]
          IN IF pos >= Len(stack) THEN done1(d1, e)
             ELSE IF Truthy(e) THEN handle_error(d1, pos, e)
             ELSE handle_request(d1, pos)

\* next() with the `return` of line 68 lost: after done() the walk goes on
next_routeFallsThrough(d, err) ==
  LET d0 == IF Truthy(err) /\ err = "route" THEN done0(d) ELSE d
  IN IF Truthy(err) /\ err = "router" THEN done1(d0, err)
     ELSE LET pos == d0.idx
              d1 == [d0 EXCEPT !.idx = @ + 1]
          IN IF pos >= Len(stack) THEN done1(d1, err)
             ELSE IF Truthy(err) THEN handle_error(d1, pos, err)
             ELSE handle_request(d1, pos)

\* next() without the test of lines 72-74: 'router' is an error like another
next_noRouterCheck(d, err) ==
  IF Truthy(err) /\ err = "route" THEN done0(d)
  ELSE LET pos == d.idx
           d1 == [d EXCEPT !.idx = @ + 1]
       IN IF pos >= Len(stack) THEN done1(d1, err)
          ELSE IF Truthy(err) THEN handle_error(d1, pos, err)
          ELSE handle_request(d1, pos)

\* next() with the cursor advanced before the layer is taken (`stack[++idx]`)
next_preIncrement(d, err) ==
  IF Truthy(err) /\ err = "route" THEN done0(d)
  ELSE IF Truthy(err) /\ err = "router" THEN done1(d, err)
  ELSE LET pos == d.idx + 1
           d1 == [d EXCEPT !.idx = @ + 1]
       IN IF pos >= Len(stack) THEN done1(d1, err)
          ELSE IF Truthy(err) THEN handle_error(d1, pos, err)
          ELSE handle_request(d1, pos)

\* next() that returns at the end of the stack without calling done
\* (`if (!layer) return;`)
next_silentEnd(d, err) ==
  IF Truthy(err) /\ err = "route" THEN done0(d)
  ELSE IF Truthy(err) /\ err = "router" THEN done1(d, err)
  ELSE LET pos == d.idx
           d1 == [d EXCEPT !.idx = @ + 1]
       IN IF pos >= Len(stack) THEN d1
          ELSE IF Truthy(err) THEN handle_error(d1, pos, err)
          ELSE handle_request(d1, pos)

\* next() with a one-shot guard: the second call of a handler is ignored
next_guarded(d, err) ==
  LET n == Len(d.log)
  IN IF /\ n > 0
        /\ d.log[n].ev = "next"
        /\ \E j \in 1..(n - 1) : d.log[j].ev = "next" /\ d.log[j].pos = d.log[n].pos
     THEN d
     ELSE IF Truthy(err) /\ err = "route" THEN done0(d)
     ELSE IF Truthy(err) /\ err = "router" THEN done1(d, err)
     ELSE LET pos == d.idx
              d1 == [d EXCEPT !.idx = @ + 1]
          IN IF pos >= Len(stack) THEN done1(d1, err)
             ELSE IF Truthy(err) THEN handle_error(d1, pos, err)
             ELSE handle_request(d1, pos)

\* next() that leaves the cursor where it is at the end of the stack
\* (`var layer = stack[idx]; if (!layer) return done(err); idx++`)
next_noIncrementAtEnd(d, err) ==
  IF Truthy(err) /\ err = "route" THEN done0(d)
  ELSE IF Truthy(err) /\ err = "router" THEN done1(d, err)
  ELSE LET pos == d.idx
           d1 == [d EXCEPT !.idx = @ + 1]
       IN IF pos >= Len(stack) THEN done1(d, err)
          ELSE IF Truthy(err) THEN handle_error(d1, pos, err)
          ELSE handle_request(d1, pos)

\* function next (err), lines 65-86
next(d, err) ==
  IF Truthy(err) /\ err = "route" THEN done0(d)
  ELSE IF Truthy(err) /\ err = "router" THEN done1(d, err)
  ELSE LET pos == d.idx
           d1 == [d EXCEPT !.idx = @ + 1]
       IN IF pos >= Len(stack) THEN done1(d1, err)
          ELSE IF Truthy(err) THEN handle_error(d1, pos, err)
          ELSE handle_request(d1, pos)

Install(d) ==
  /\ idx' = d.idx
  /\ log' = d.log
  /\ acts' = d.acts

\* dispatch with the back-reference attached before the test for an empty
\* stack
dispatch_routeFirst ==
  /\ phase = "setup"
  /\ phase' = "running"
  /\ lastCall' = [NoCall EXCEPT !.method = "dispatch", !.status = "running"]
  /\ reqRoute' = "this"
  /\ LET d0 == [Cur EXCEPT !.idx = 0, !.route = "this"]
     IN IF Len(stack) = 0
        THEN Install(done0(d0))
        ELSE Install(next(d0, "undef"))
  /\ before' = stack
  /\ UNCHANGED <<stack, payload, other, xfer, conn>>

\* dispatch with the back-reference attached after the first call of next
\* (lines 61 and 63 exchanged): the first layer runs without it
dispatch_routeLate ==
  /\ phase = "setup"
  /\ phase' = "running"
  /\ lastCall' = [NoCall EXCEPT !.method = "dispatch", !.status = "running"]
  /\ before' = stack
  /\ LET d0 == [Cur EXCEPT !.idx = 0]
     IN IF Len(stack) = 0
        THEN /\ Install(done0(d0))
             /\ UNCHANGED reqRoute
        ELSE /\ Install(next(d0, "undef"))
             /\ reqRoute' = "this"
  /\ UNCHANGED <<stack, payload, other, xfer, conn>>

\* Route.prototype.dispatch, up to the point where control is with a handler
\* or back in dispatch
dispatch ==
  /\ phase = "setup"
  /\ phase' = "running"
  /\ lastCall' = [NoCall EXCEPT !.method = "dispatch", !.status = "running"]
  /\ LET d0 == [Cur EXCEPT !.idx = 0]
     IN IF Len(stack) = 0
        THEN /\ Install(done0(d0))
             /\ UNCHANGED reqRoute
        ELSE /\ reqRoute' = "this"
             /\ Install(next([d0 EXCEPT !.route = "this"], "undef"))
  /\ before' = stack
  /\ UNCHANGED <<stack, payload, other, xfer, conn>>

\* dispatch returns to its caller: what follows happens in later turns
dispatchReturns ==
  /\ phase = "running"
  /\ phase' = "returned"
  /\ lastCall' = [lastCall EXCEPT !.status = "returned"]
  /\ UNCHANGED <<stack, before, idx, reqRoute, log, acts, payload, other, xfer, conn>>

\* ---------------------------------------------------------------- handlers
\* the handler invocation a, which has not called the continuation yet,
\* calls it with v
handlerCallsNext(a, v) ==
  /\ acts[a].calls = 0
  /\ ~acts[a].ended
  /\ LET d0 == [Cur EXCEPT
                  !.acts[a].calls = @ + 1,
                  !.log = Append(@, Ev("next", acts[a].pos, acts[a].mode, v, 1,
                                       stack[acts[a].pos + 1].handle))]
     IN Install(next(d0, v))
  /\ UNCHANGED <<stack, before, lastCall, phase, reqRoute, payload, other, xfer, conn>>

\* the handler invocations that have called the continuation a second time
Reentries(as) == Cardinality({k \in 1..Len(as) : as[k].calls > 1})

\* the handler invocation a calls the continuation with v and goes on to
\* call it again without an argument (`if (bad) next(v); next()`, the missing
\* return): nothing in next() stops the second call
handlerCallsTwice(a, v) ==
  /\ acts[a].calls = 0
  /\ ~acts[a].ended
  /\ Reentries(acts) < MaxReentry
  /\ LET e(x) == Ev("next", acts[a].pos, acts[a].mode, x, 1,
                    stack[acts[a].pos + 1].handle)
         d0 == [Cur EXCEPT !.acts[a].calls = @ + 1, !.log = Append(@, e(v))]
         d1 == next(d0, v)
         d2 == [d1 EXCEPT !.acts[a].calls = @ + 1, !.log = Append(@, e("undef"))]
     IN Install(next(d2, "undef"))
  /\ UNCHANGED <<stack, before, lastCall, phase, reqRoute, payload, other, xfer, conn>>

\* a dispatcher that moves on by itself when a handler is over without a
\* call of the continuation
handlerEnds_advances(a) ==
  /\ acts[a].calls = 0
  /\ ~acts[a].ended
  /\ Install(next([Cur EXCEPT !.acts[a].ended = TRUE], "undef"))
  /\ UNCHANGED <<stack, before, lastCall, phase, reqRoute, payload, other, xfer, conn>>

\* the handler invocation a is over without a call of the continuation: it
\* has answered the request itself
handlerEnds(a) ==
  /\ acts[a].calls = 0
  /\ ~acts[a].ended
  /\ acts' = [acts EXCEPT ![a].ended = TRUE]
  /\ UNCHANGED <<stack, before, lastCall, phase, idx, reqRoute, log, payload, other, xfer, conn>>

Next ==
  \/ \E args \in ArgLists : all(args)
  \/ \E args \in ArgLists : get(args)
  \/ dispatch
  \/ dispatchReturns
  \/ \E a \in 1..Len(acts), v \in NextArgs : handlerCallsNext(a, v)
  \/ \E a \in 1..Len(acts), v \in NextArgs : handlerCallsTwice(a, v)
  \/ \E a \in 1..Len(acts) : handlerEnds(a)

Spec == Init /\ [][Next]_vars

\* ---------------------------------------------------------------- two dispatches
\* The route is dispatched a second time, for another request, while the
\* first dispatch is under way.  Each call of dispatch has its own `idx` and
\* its own `next` (lines 55 and 65 are local to the call); `stack` is the
\* array of the route (line 56).

\* the values the handlers of the two dispatches pass to the continuation
TwoArgs == {"undef", "E1", "route", "router"}

\* the cursor kept on the route instead of in the call (`this.idx`): the
\* second dispatch reads the cursor of the first
Cur2_shared ==
  [idx |-> idx, log |-> other.log, acts |-> other.acts, route |-> other.reqRoute]

\* the second dispatch's own state
Cur2 ==
  [idx |-> other.idx, log |-> other.log, acts |-> other.acts,
   route |-> other.reqRoute]

\* Route.prototype.dispatch, lines 54-63, called for the other request
secondDispatch ==
  /\ phase # "setup"
  /\ other.phase = "none"
  /\ LET d0 == [Cur2 EXCEPT !.idx = 0]
         d == IF Len(stack) = 0
              THEN done0(d0)
              ELSE next([d0 EXCEPT !.route = "this"], "undef")
     IN other' = [phase |-> "running", idx |-> d.idx,
                  reqRoute |-> IF Len(stack) = 0 THEN other.reqRoute ELSE "this",
                  log |-> d.log, acts |-> d.acts]
  /\ UNCHANGED <<stack, before, lastCall, phase, idx, reqRoute, log, acts, payload, xfer, conn>>

\* the handler invocation a of the second dispatch calls the continuation it
\* was given, with v
secondHandlerCallsNext(a, v) ==
  /\ other.phase = "running"
  /\ other.acts[a].calls = 0
  /\ LET d0 == [Cur2 EXCEPT
                  !.acts[a].calls = @ + 1,
                  !.log = Append(@, Ev("next", other.acts[a].pos, other.acts[a].mode,
                                       v, 1, stack[other.acts[a].pos + 1].handle))]
         d == next(d0, v)
     IN other' = [other EXCEPT !.idx = d.idx, !.log = d.log, !.acts = d.acts]
  /\ UNCHANGED <<stack, before, lastCall, phase, idx, reqRoute, log, acts, payload, xfer, conn>>

NextTwo ==
  \/ \E args \in ArgLists : all(args)
  \/ \E args \in ArgLists : get(args)
  \/ dispatch
  \/ \E a \in 1..Len(acts), v \in TwoArgs : handlerCallsNext(a, v)
  \/ secondDispatch
  \/ \E a \in 1..Len(other.acts), v \in TwoArgs : secondHandlerCallsNext(a, v)

SpecTwo == Init /\ [][NextTwo]_vars

\* ---------------------------------------------------------------- the Layer contract
\* Every handler that is called calls the continuation exactly once, sooner
\* or later: no handler answers without calling it, none calls it twice.
NextContract ==
  \/ \E args \in ArgLists : all(args)
  \/ \E args \in ArgLists : get(args)
  \/ dispatch
  \/ dispatchReturns
  \/ \E a \in 1..Len(acts), v \in NextArgs : handlerCallsNext(a, v)

SpecContract ==
  /\ Init
  /\ [][NextContract]_vars
  /\ WF_vars(\E a \in 1..Len(acts), v \in NextArgs : handlerCallsNext(a, v))

\* ---------------------------------------------------------------- file transfer
\* res.sendFile (lines 277-312) and the helper sendfile (lines 574-649) of
\* lib/response.js.  The events of the file stream and the notification
\* that the response has finished arrive in any order and any number of
\* times; a deferred check (setImmediate) runs in a later turn.

\* deferred checks that may be waiting at one time
MaxPending == 2

\* an error, by its code (and syscall); "none" is no error
TransferErrors == {"EISDIR", "ECONNABORTED", "ECONNRESET", "EPIPE/write", "ENOENT"}
code(err) == IF err = "EPIPE/write" THEN "EPIPE" ELSE err
syscall(err) == IF err = "EPIPE/write" THEN "write" ELSE "none"

\* the arguments of res.sendFile
Paths == {"", "/abs/file", "rel/file"}
Options == {"undefined", "function", "with root", "without root"}
Callbacks == {"undefined", "function"}
isAbsolute(path) == path = "/abs/file"

\* the callback of lines 305-311 with the `return` of line 306 lost: after
\* done(err) the error goes to next as well
transferred_noReturn(x, err) ==
  LET x1 == IF x.done # "none"
            THEN [x EXCEPT !.doneCalls = Append(@, [fn |-> x.done, err |-> err])]
            ELSE x
  IN IF err # "none" /\ code(err) = "EISDIR"
     THEN [x1 EXCEPT !.nextCalls = Append(@, <<>>)]
     ELSE IF err # "none" /\ code(err) # "ECONNABORTED" /\ syscall(err) # "write"
     THEN [x1 EXCEPT !.nextCalls = Append(@, <<err>>)]
     ELSE x1

\* the callback res.sendFile hands to sendfile, lines 305-311
transferred(x, err) ==
  IF x.done # "none"
  THEN [x EXCEPT !.doneCalls = Append(@, [fn |-> x.done, err |-> err])]
  ELSE IF err # "none" /\ code(err) = "EISDIR"
  THEN [x EXCEPT !.nextCalls = Append(@, <<>>)]
  ELSE IF err # "none" /\ code(err) # "ECONNABORTED" /\ syscall(err) # "write"
  THEN [x EXCEPT !.nextCalls = Append(@, <<err>>)]
  ELSE x

\* sendfile calls its callback
callback(x, err) == transferred([x EXCEPT !.callbacks = Append(@, err)], err)

\* function onaborted, lines 579-586
onaborted(x) ==
  IF x.fin THEN x ELSE callback([x EXCEPT !.fin = TRUE], "ECONNABORTED")

\* function ondirectory, lines 589-596
ondirectory(x) ==
  IF x.fin THEN x ELSE callback([x EXCEPT !.fin = TRUE], "EISDIR")

\* function onerror, lines 599-603
onerror(x, err) ==
  IF x.fin THEN x ELSE callback([x EXCEPT !.fin = TRUE], err)

\* onend without the test of line 607
onend_unguarded(x) == callback([x EXCEPT !.fin = TRUE], "none")

\* function onend, lines 606-610
onend(x) ==
  IF x.fin THEN x ELSE callback([x EXCEPT !.fin = TRUE], "none")

\* function onfile, lines 613-615
onfile(x) == [x EXCEPT !.streaming = "false"]

\* function onstream, lines 636-638
onstream(x) == [x EXCEPT !.streaming = "true"]

\* function onfinish, lines 618-633, up to setImmediate
onfinish(x, err) ==
  IF err # "none" /\ code(err) = "ECONNRESET" THEN onaborted(x)
  ELSE IF err # "none" THEN onerror(x, err)
  ELSE IF x.fin THEN x
  ELSE [x EXCEPT !.immediates = @ + 1]

\* the function given to setImmediate, lines 623-632
immediate(x) ==
  LET x0 == [x EXCEPT !.immediates = @ - 1]
  IN IF x0.streaming # "false" /\ ~x0.fin THEN onaborted(x0)
     ELSE IF x0.fin THEN x0
     ELSE callback([x0 EXCEPT !.fin = TRUE], "none")

\* res.sendFile(path, options, callback), lines 277-312
sendFile(path, options, cb) ==
  /\ xfer.state = "idle"
  /\ LET done == IF options = "function" THEN "options"
                 ELSE IF cb = "function" THEN "callback"
                 ELSE "none"
         root == options = "with root"
     IN xfer' = IF path = ""
                THEN [xfer EXCEPT !.state = "threw: path argument is required"]
                ELSE IF ~root /\ ~isAbsolute(path)
                THEN [xfer EXCEPT !.state = "threw: path must be absolute or specify root"]
                ELSE [xfer EXCEPT !.state = "open", !.done = done]
  /\ UNCHANGED <<stack, before, lastCall, phase, idx, reqRoute, log, acts, payload,
                 other, conn>>

\* the file stream emits 'directory', 'end', 'error', 'file', 'stream'
emitDirectory ==
  /\ xfer.state = "open"
  /\ xfer' = ondirectory(xfer)
  /\ UNCHANGED <<stack, before, lastCall, phase, idx, reqRoute, log, acts, payload,
                 other, conn>>

emitEnd ==
  /\ xfer.state = "open"
  /\ xfer' = onend(xfer)
  /\ UNCHANGED <<stack, before, lastCall, phase, idx, reqRoute, log, acts, payload,
                 other, conn>>

emitError(err) ==
  /\ xfer.state = "open"
  /\ xfer' = onerror(xfer, err)
  /\ UNCHANGED <<stack, before, lastCall, phase, idx, reqRoute, log, acts, payload,
                 other, conn>>

emitFile ==
  /\ xfer.state = "open"
  /\ xfer' = onfile(xfer)
  /\ UNCHANGED <<stack, before, lastCall, phase, idx, reqRoute, log, acts, payload,
                 other, conn>>

emitStream ==
  /\ xfer.state = "open"
  /\ xfer' = onstream(xfer)
  /\ UNCHANGED <<stack, before, lastCall, phase, idx, reqRoute, log, acts, payload,
                 other, conn>>

\* onFinished(res, onfinish) reports that the response has finished, with an
\* error or without
responseFinished(err) ==
  /\ xfer.state = "open"
  /\ (err = "none" /\ ~xfer.fin) => xfer.immediates < MaxPending
  /\ xfer' = onfinish(xfer, err)
  /\ UNCHANGED <<stack, before, lastCall, phase, idx, reqRoute, log, acts, payload,
                 other, conn>>

\* a deferred check runs
deferredCheck ==
  /\ xfer.state = "open"
  /\ xfer.immediates > 0
  /\ xfer' = immediate(xfer)
  /\ UNCHANGED <<stack, before, lastCall, phase, idx, reqRoute, log, acts, payload,
                 other, conn>>

NextFile ==
  \/ \E path \in Paths, options \in Options, cb \in Callbacks :
       sendFile(path, options, cb)
  \/ emitDirectory
  \/ emitEnd
  \/ \E err \in TransferErrors : emitError(err)
  \/ emitFile
  \/ emitStream
  \/ \E err \in TransferErrors \cup {"none"} : responseFinished(err)
  \/ deferredCheck

SpecFile == Init /\ [][NextFile]_vars

\* ---------------------------------------------------------------- end and send
\* res.end (lines 544-568) and res.send (lines 79-120) of lib/response.js,
\* by what they do to this.connection.

\* calls of res.end and res.send on one response
MaxEndCalls == 2

\* the arguments of res.end and res.send
Chunks ==
  {"undefined", "null", "", "text", "Buffer", "empty Buffer", "function", "0", "5",
   "object"}
Encodings == {"undefined", "utf8", "function"}
Bodies == {"undefined", "null", "", "text", "Buffer", "true", "object"}

\* if (chunk)
ChunkTruthy(chunk) == chunk \notin {"undefined", "null", "", "0"}
IsString(chunk) == chunk \in {"", "text"}
IsBuffer(chunk) == chunk \in {"Buffer", "empty Buffer"}

\* the three calls on the connection, lines 561-567
Ended(chunk, encoding, cb) ==
  << <<"cork">>, <<"end", chunk, encoding, cb>>, <<"uncork">> >>

\* end() as a stream's end is: the connection is ended whatever the chunk
end_always(c, chunk0, encoding0, cb0) ==
  LET cb == IF chunk0 = "function" THEN "function (1st)"
            ELSE IF encoding0 = "function" THEN "function (2nd)"
            ELSE IF cb0 = "function" THEN "function (3rd)"
            ELSE "undefined"
      chunk == IF chunk0 = "function" THEN "null" ELSE chunk0
      encoding == IF chunk0 # "function" /\ encoding0 = "function" THEN "null"
                  ELSE encoding0
  IN IF ChunkTruthy(chunk) /\ ~IsString(chunk) /\ ~IsBuffer(chunk)
     THEN [ops |-> c.ops, status |-> "threw TypeError"]
     ELSE [ops |-> c.ops \o Ended(chunk, encoding, cb), status |-> "returned this"]

\* end(chunk, encoding, callback), lines 544-568: what it leaves of the
\* connection's calls, and how it ends
end(c, chunk0, encoding0, cb0) ==
  LET cb == IF chunk0 = "function" THEN "function (1st)"
            ELSE IF encoding0 = "function" THEN "function (2nd)"
            ELSE IF cb0 = "function" THEN "function (3rd)"
            ELSE "undefined"
      chunk == IF chunk0 = "function" THEN "null" ELSE chunk0
      encoding == IF chunk0 # "function" /\ encoding0 = "function" THEN "null"
                  ELSE encoding0
  IN IF ChunkTruthy(chunk)
     THEN IF ~IsString(chunk) /\ ~IsBuffer(chunk)
          THEN [ops |-> c.ops, status |-> "threw TypeError"]
          ELSE [ops |-> c.ops \o Ended(chunk, encoding, cb),
                status |-> "returned this"]
     ELSE [ops |-> c.ops, status |-> "returned this"]

\* res.json(obj), lines 132-154: the body as a string
json(obj) == "text"

\* send(body) with one argument, lines 79-120
send(c, body) ==
  LET chunk == IF body = "null" THEN ""
               ELSE IF body \in {"true", "object"} THEN json(body)
               ELSE body
  IN end(c, chunk, "undefined", "undefined")

callEnd(chunk, encoding, cb) ==
  /\ conn.calls < MaxEndCalls
  /\ LET r == end(conn, chunk, encoding, cb)
     IN conn' = [ops |-> r.ops, calls |-> conn.calls + 1,
                 last |-> [method |-> "end", chunk |-> chunk, encoding |-> encoding,
                           callback |-> cb, status |-> r.status]]
  /\ UNCHANGED <<stack, before, lastCall, phase, idx, reqRoute, log, acts, payload,
                 other, xfer>>

callSend(body) ==
  /\ conn.calls < MaxEndCalls
  /\ LET r == send(conn, body)
     IN conn' = [ops |-> r.ops, calls |-> conn.calls + 1,
                 last |-> [method |-> "send", chunk |-> body, encoding |-> "undefined",
                           callback |-> "undefined", status |-> r.status]]
  /\ UNCHANGED <<stack, before, lastCall, phase, idx, reqRoute, log, acts, payload,
                 other, xfer>>

NextEnd ==
  \/ \E chunk \in Chunks, encoding \in Encodings, cb \in Callbacks :
       callEnd(chunk, encoding, cb)
  \/ \E body \in Bodies : callSend(body)

SpecEnd == Init /\ [][NextEnd]_vars

\* ---------------------------------------------------------------- the log
\* the calls of done so far, and the layer invocations so far, in order
IsDone(e) == e.ev = "done"
IsInvoke(e) == e.ev = "invoke"
Dones == SelectSeq(log, IsDone)
Invokes == SelectSeq(log, IsInvoke)

\* the continuation calls in the log
NextCalls == {i \in 1..Len(log) : log[i].ev = "next"}

\* how many layers the dispatcher had invoked before log entry i
InvokedBefore(i) == Cardinality({k \in 1..(i - 1) : log[k].ev = "invoke"})

\* where the continuation call at log entry i ended: the first handler
\* function called or call of done after it
Outcome(i) ==
  CHOOSE k \in (i + 1)..Len(log) :
    /\ log[k].ev \in {"run", "done"}
    /\ \A m \in (i + 1)..(k - 1) : log[m].ev = "invoke"

\* the positions after p that hold an error-capable layer
ErrorCapableAfter(p) ==
  {j \in (p + 1)..(Len(stack) - 1) : Arity(stack[j + 1].handle) = 4}

Min(S) == CHOOSE x \in S : \A y \in S : x <= y

\* no handler invocation has called the continuation more than once
NoReentry == \A a \in 1..Len(acts) : acts[a].calls <= 1

\* every handler invocation is over: it has called the continuation or has
\* answered the request itself, and dispatch has returned
AllOver ==
  /\ phase = "returned"
  /\ \A a \in 1..Len(acts) : acts[a].calls >= 1 \/ acts[a].ended

C2_InvocationOrderIsRegistrationOrder ==
  \A k \in 1..Len(Invokes) :
    /\ Invokes[k].pos = k - 1
    /\ Invokes[k].h = stack[k].handle

\* a dispatch without a sentinel has invoked the three layers of its stack,
\* the error-capable one among them
C2_Witness ==
  /\ Len(stack) = 3
  /\ Len(Invokes) = 3
  /\ \E k \in 1..3 : stack[k].handle # stack[1].handle
  /\ \A i \in NextCalls : log[i].arg \notin Sentinels

C4_ErrorIsClearedByPlainNext ==
  \A i \in NextCalls :
    (log[i].mode = "error" /\ log[i].arg = "undef") =>
      LET k == Outcome(i)
      IN /\ \A m \in (i + 1)..k : log[m].ev # "done" => log[m].mode = "request"
         /\ log[k].ev = "done" =>
              log[k].arg = "undef" /\ InvokedBefore(k) = Len(stack)

\* scenario B: stack [h1, e1], h1 raises an error, e1 calls next(), done()
C4_Witness ==
  /\ Len(stack) = 2
  /\ Len(log) = 7
  /\ log[3].ev = "next" /\ log[3].arg \in Errors /\ log[3].pos = 0
  /\ log[5].ev = "run" /\ log[5].mode = "error" /\ log[5].pos = 1
  /\ log[6].ev = "next" /\ log[6].arg = "undef" /\ log[6].pos = 1
  /\ log[7].ev = "done" /\ log[7].arg = "undef"
  /\ Len(Dones) = 1

C7_EmptyStackCallsDoneSynchronously ==
  (phase # "setup" /\ Len(stack) = 0) =>
    /\ log = <<Ev("done", -1, "none", "undef", 0, "none")>>
    /\ acts = <<>>
    /\ idx = 0
    /\ reqRoute = "unset"

\* dispatch on an empty stack has not returned yet and done has been called
C7_Witness ==
  /\ phase = "running"
  /\ Len(stack) = 0
  /\ Len(Dones) = 1

\* ---------------------------------------------------------------- C8
\* the first value of the flattened argument list that is not a function
Offending(handles) ==
  handles[Min({k \in 1..Len(handles) : ~IsFunction(handles[k])})]

HasNonFunction(handles) == \E k \in 1..Len(handles) : ~IsFunction(handles[k])

\* C8: an all() or get() whose flattened argument list holds a value that is
\* not a function throws and leaves the stack as it was before the call.
C8_FailedRegistrationAddsNoLayer ==
  (lastCall.method \in {"all", "get"} /\ HasNonFunction(lastCall.handles)) =>
    /\ lastCall.status = "threw"
    /\ stack = before

\* ---------------------------------------------------------------- C9
\* C9: all() and get() alike fail at registration time, with a TypeError
\* whose message names the type of the offending value.
C9_RegistrationFailsWithTypeError ==
  (lastCall.method \in {"all", "get"} /\ HasNonFunction(lastCall.handles)) =>
    /\ lastCall.status = "threw"
    /\ phase = "setup"
    /\ lastCall.kind = "TypeError"
    /\ lastCall.msg[2] = toString(Offending(lastCall.handles))

\* ---------------------------------------------------------------- C10
\* C10, as stated: every value passed to the continuation that is present,
\* not null and no sentinel, 0, false and '' included, is a pending error: the next layer
\* is invoked in error mode with it, and done gets it if no layer remains.
C10_PresentValueIsPendingError ==
  \A i \in NextCalls :
    log[i].arg \in Errors \cup FalsyPresent =>
      IF InvokedBefore(i) < Len(stack)
      THEN log[i + 1] = Ev("invoke", InvokedBefore(i), "error", log[i].arg, 0,
                           stack[InvokedBefore(i) + 1].handle)
      ELSE log[i + 1] = Ev("done", -1, "none", log[i].arg, 1, "none")

\* C10, amended: a truthy value that is no sentinel is a pending error: the
\* next layer is invoked in error mode with it.  A falsy value that is
\* present (0, false, '') is not: the next layer is invoked in normal mode,
\* without the value.  Either way done is called with the value if no layer remains.
C10_TruthyValueIsPendingError ==
  \A i \in NextCalls :
    log[i].arg \in Errors \cup FalsyPresent =>
      IF InvokedBefore(i) < Len(stack)
      THEN log[i + 1] =
             Ev("invoke", InvokedBefore(i),
                IF log[i].arg \in Errors THEN "error" ELSE "request",
                IF log[i].arg \in Errors THEN log[i].arg ELSE "undef", 0,
                stack[InvokedBefore(i) + 1].handle)
      ELSE log[i + 1] = Ev("done", -1, "none", log[i].arg, 1, "none")

\* one handler passed 0 and the next layer was invoked in normal mode, another
\* passed an error and the next layer was invoked in error mode, a third
\* passed 0 at the end of the stack
C10_Witness ==
  /\ \E i \in NextCalls :
       log[i].arg \in FalsyPresent /\ log[i + 1].ev = "invoke"
  /\ \E i \in NextCalls :
       log[i].arg \in Errors /\ log[i + 1].ev = "invoke"
  /\ \E i \in NextCalls :
       log[i].arg \in FalsyPresent /\ log[i + 1].ev = "done"

\* ---------------------------------------------------------------- C11
\* the continuation calls a step adds to the log
CallsInStep == {k \in (Len(log) + 1)..Len(log') : log'[k].ev = "next"}

\* C11: a continuation call without an argument or with null takes the layer
\* at the cursor and moves the cursor on by one.  If there is a layer, it is
\* invoked in request mode (and a normal handler is called, which then holds
\* the same continuation); if there is none, done is called with the value of
\* the call, which is no error.  The same holds of the call dispatch makes
\* itself (line 63).
C11_PlainCallTakesLayerAtCursor ==
  [][LET n == Len(log)
     IN /\ (phase = "setup" /\ phase' = "running" /\ Len(stack) > 0) =>
             /\ log'[1] = Ev("invoke", 0, "request", "undef", 0, stack[1].handle)
             /\ Arity(stack[1].handle) <= 3 =>
                  /\ log' = <<log'[1], Ev("run", 0, "request", "undef", 0, stack[1].handle)>>
                  /\ idx' = 1
        /\ (phase # "setup" /\ Len(log') > n /\ log'[n + 1].ev = "next"
              /\ log'[n + 1].arg \in {"undef", "null"}) =>
             /\ Len(log') >= n + 2
             /\ IF idx < Len(stack)
                THEN LET h == stack[idx + 1].handle
                     IN /\ log'[n + 2] = Ev("invoke", idx, "request", "undef", 0, h)
                        /\ Arity(h) <= 3 =>
                             /\ Len(log') >= n + 3
                             /\ log'[n + 3] = Ev("run", idx, "request", "undef", 0, h)
                             /\ acts'[Len(acts) + 1].pos = idx
                             /\ CallsInStep = {n + 1} =>
                                  /\ idx' = idx + 1
                                  /\ Len(log') = n + 3
                ELSE /\ log'[n + 2] = Ev("done", -1, "none", log'[n + 1].arg, 1, "none")
                     /\ log'[n + 2].arg \notin Errors \cup Sentinels
                     /\ CallsInStep = {n + 1} =>
                          /\ idx' = idx + 1
                          /\ Len(log') = n + 2
    ]_vars

\* a handler at position 1 has called next(null), the handler at position 2
\* was called, has called next(), and done was called
C11_Witness ==
  /\ Len(stack) = 3
  /\ Len(log) = 10
  /\ log[6].ev = "next" /\ log[6].arg = "null" /\ log[6].pos = 1
  /\ log[8] = Ev("run", 2, "request", "undef", 0, "h1")
  /\ log[9].ev = "next" /\ log[9].arg = "undef" /\ log[9].pos = 2
  /\ log[10] = Ev("done", -1, "none", "undef", 1, "none")
  /\ idx = 4

\* ---------------------------------------------------------------- C12
\* the handler invocations that have not called the continuation yet
Active == {a \in 1..Len(acts) : acts[a].calls = 0}

\* C12, as stated: at most one layer of a dispatch is active at any instant.
\* No two handler invocations are waiting to call the continuation, and when
\* the layer at a position p > 0 is invoked, the handler called at p - 1 (if
\* the layer there was not passed by) has called the continuation.
C12_AtMostOneLayerActive ==
  /\ Cardinality(Active) <= 1
  /\ \A k \in 1..Len(log) :
       (log[k].ev = "invoke" /\ log[k].pos > 0) =>
         \/ \A m \in 1..(k - 1) : ~(log[m].ev = "run" /\ log[m].pos = log[k].pos - 1)
         \/ \E m \in 1..(k - 1) : log[m].ev = "next" /\ log[m].pos = log[k].pos - 1

\* ---------------------------------------------------------------- C13
IsNext(e) == e.ev = "next"

\* a dispatch of the present stack run alone, its handlers making the
\* continuation calls evs in this order: the state it ends in (cursor -1 when
\* a call comes from a handler that a dispatch run alone never called)
RECURSIVE Replay(_, _)
Replay(d, evs) ==
  IF evs = <<>> THEN d
  ELSE LET e == Head(evs)
           A == {a \in 1..Len(d.acts) : d.acts[a].pos = e.pos /\ d.acts[a].mode = e.mode}
       IN IF A = {} THEN [d EXCEPT !.idx = -1]
          ELSE LET a == CHOOSE x \in A : TRUE
               IN Replay(next([d EXCEPT !.acts[a].calls = @ + 1,
                                        !.log = Append(@, e)], e.arg),
                         Tail(evs))

Alone(lg) ==
  LET d0 == [idx |-> 0, log |-> <<>>, acts |-> <<>>, route |-> "this"]
  IN Replay(IF Len(stack) = 0 THEN done0(d0) ELSE next(d0, "undef"),
            SelectSeq(lg, IsNext))

\* C13: two dispatches of the route, their continuation calls interleaved in
\* any order, do not interfere.  Each is, at every moment, in the state a
\* dispatch run alone is in after the same continuation calls of its own
\* handlers (same cursor, same layers invoked in the same modes, same call of
\* done), and the stack is the one the first dispatch started with.
C13_InterleavedDispatchesDoNotInterfere ==
  /\ phase # "setup" =>
       /\ Alone(log).idx = idx
       /\ Alone(log).log = log
       /\ Alone(log).acts = acts
       /\ stack = before
  /\ other.phase # "none" =>
       /\ Alone(other.log).idx = other.idx
       /\ Alone(other.log).log = other.log
       /\ Alone(other.log).acts = other.acts

\* the second dispatch has run to its end, on an error, while the first is
\* still at its first layer, which then passes 'route'
C13_Witness ==
  /\ Len(stack) = 3
  /\ other.idx = 4
  /\ other.log[Len(other.log)] = Ev("done", -1, "none", "E1", 1, "none")
  /\ idx = 1
  /\ Len(log) = 4
  /\ log[4] = Ev("done", -1, "none", "undef", 0, "none")

\* ---------------------------------------------------------------- C14
\* C14: under the Layer contract every dispatch ends in a call of done.  As
\* long as done has not been called a handler is waiting to call the
\* continuation (the dispatch never stalls); no more layers are invoked than
\* the stack has entries; once started, the dispatch reaches its call of
\* done; and that call follows a sentinel or the end of the stack.
C14_DispatchEndsInDone ==
  /\ [](Len(Invokes) <= Len(stack))
  /\ []((phase # "setup" /\ Len(Dones) = 0) => \E a \in 1..Len(acts) : acts[a].calls = 0)
  /\ [](\A k \in 1..Len(log) :
          log[k].ev = "done" =>
            \/ k > 1 /\ log[k - 1].ev = "next" /\ log[k - 1].arg \in Sentinels
            \/ InvokedBefore(k) = Len(stack))
  /\ (phase # "setup") ~> (Len(Dones) = 1)

\* a dispatch of three layers, one of them passed by, has ended at the end of
\* the stack
C14_Witness ==
  /\ Len(stack) = 3
  /\ stack[2].handle = "e1"
  /\ Len(Invokes) = 3
  /\ Len(Dones) = 1
  /\ log[Len(log)] = Ev("done", -1, "none", "undef", 1, "none")
  /\ \A a \in 1..Len(acts) : acts[a].calls = 1

Layers(handles) == [i \in 1..Len(handles) |-> Layer(handles[i])]

AllFunctions(handles) == \A i \in 1..Len(handles) : IsFunction(handles[i])

\* C16: registration only appends, and in order.  A call of all or get whose
\* arguments, flattened depth-first from left to right (the list the call
\* records as its handles), are all functions returns the route and leaves
\* the stack as it was, followed by one layer per handler in that order (so
\* that after successful calls the stack is the concatenation of their
\* lists); and no step of the route takes a layer away or changes one: every
\* earlier stack is a prefix of every later one.
C16_RegistrationAppendsInOrder ==
  /\ [][(phase = "setup" /\ phase' = "setup" /\ AllFunctions(lastCall'.handles)) =>
          /\ stack' = stack \o Layers(lastCall'.handles)
          /\ lastCall'.status = "returned this"]_vars
  /\ [][/\ Len(stack') >= Len(stack)
        /\ SubSeq(stack', 1, Len(stack)) = stack]_vars

\* a second successful call has added two handlers after the one of the first
C16_Witness ==
  /\ phase = "setup"
  /\ before = <<Layer("h1")>>
  /\ lastCall.status = "returned this"
  /\ lastCall.method = "get"
  /\ lastCall.handles = <<"e1", "h1">>
  /\ stack = <<Layer("h1"), Layer("e1"), Layer("h1")>>

\* ---------------------------------------------------------------- C17
\* C17: get and all populate a route alike, and dispatch does not look at
\* the verb.  After a successful call the stack is the one the other method
\* leaves for the same handlers (a layer carries no method), and a dispatch
\* is, at every moment, what the stack and the continuation calls of its
\* handlers determine: the same layers invoked in the same modes and the
\* same call of done, whichever method registered the layers.
C17_GetAndAllAreDispatchedAlike ==
  /\ (phase = "setup" /\ lastCall.status = "returned this") =>
       /\ stack = allLoop(before, lastCall.handles, 1).stack
       /\ stack = getLoop(before, lastCall.handles, 1).stack
  /\ phase # "setup" =>
       /\ Alone(log).log = log
       /\ Alone(log).idx = idx

\* get has registered a normal and an error-capable handler on a new route
C17_Witness ==
  /\ phase = "setup"
  /\ before = <<>>
  /\ lastCall.method = "get"
  /\ lastCall.status = "returned this"
  /\ lastCall.handles = <<"h1", "e1">>
  /\ stack = allLoop(<<>>, <<"h1", "e1">>, 1).stack

\* ---------------------------------------------------------------- C18
\* C18: dispatch on a non-empty stack sets req.route to the route before the
\* first layer is invoked, and it is the route at every layer invocation of
\* the dispatch: every handler that was called saw it set, and it is set from
\* then on.  Nothing else of req or res is touched by dispatch or next.
C18_RouteIsSetBeforeTheFirstLayer ==
  /\ \A a \in 1..Len(acts) : acts[a].seen = "this"
  /\ (phase # "setup" /\ Len(stack) > 0) => reqRoute = "this"
  /\ payload = AsReceived

\* three handlers have been called in one dispatch, the last after an error
C18_Witness ==
  /\ Len(acts) = 3
  /\ acts[3].mode = "error"
  /\ \A a \in 1..3 : acts[a].seen = "this"
  /\ reqRoute = "this"
  /\ phase = "returned"

\* ---------------------------------------------------------------- C19
\* the continuation calls that are the second call of a handler
SecondCalls ==
  {i \in NextCalls : \E j \in 1..(i - 1) : log[j].ev = "next" /\ log[j].pos = log[i].pos}

\* C19: the continuation has no one-shot guard.  A handler's second call (made
\* without an argument) is acted on like a first: it takes the layer after the
\* ones taken so far and invokes it, or calls done when none is left,
\* although the handler's first call has moved the dispatch on already.
C19_SecondCallAdvancesAgain ==
  \A i \in SecondCalls :
    /\ Len(log) > i
    /\ LET p == InvokedBefore(i)
       IN IF p < Len(stack)
          THEN log[i + 1] = Ev("invoke", p, "request", "undef", 0, stack[p + 1].handle)
          ELSE log[i + 1] = Ev("done", -1, "none", "undef", 1, "none")

\* the first handler has called next() twice: the layer at position 2 was
\* invoked and its handler called while the handler at position 1 has not
\* called the continuation
C19_Witness ==
  /\ Len(stack) = 3
  /\ Len(acts) = 3
  /\ acts[1].calls = 2
  /\ \E a, b \in 1..Len(acts) :
       /\ acts[a].pos = 1 /\ acts[a].calls = 0 /\ ~acts[a].ended
       /\ acts[b].pos = 2
  /\ SecondCalls # {}
  /\ Len(Dones) = 0

\* ---------------------------------------------------------------- C20
\* the layer invocations in which the layer passes on by calling the
\* continuation itself (a layer invoked in a mode its handler does not take)
PassedOn ==
  {k \in 1..Len(log) :
     /\ log[k].ev = "invoke"
     /\ IF log[k].mode = "error" THEN Arity(log[k].h) # 4 ELSE Arity(log[k].h) > 3}

\* the continuation calls so far that carried no sentinel: the one dispatch
\* makes, those of the handlers and those of the layers that passed on
PlainCalls ==
  (IF phase # "setup" /\ Len(stack) > 0 THEN 1 ELSE 0)
  + Cardinality({i \in NextCalls : log[i].arg \notin Sentinels})
  + Cardinality(PassedOn)

\* C20: the cursor starts at 0 and never goes down, and it counts the
\* continuation calls that carried no sentinel, one each, those made past the
\* end of the stack too.  So when no handler has called twice, no position
\* of the stack was invoked twice and the cursor is at most the length of
\* the stack plus one.
C20_CursorCountsPlainCalls ==
  /\ [](phase = "setup" => idx = 0)
  /\ [][idx' >= idx]_vars
  /\ [](idx = PlainCalls)
  /\ [](NoReentry =>
          /\ idx <= Len(stack) + 1
          /\ \A j, k \in 1..Len(log) :
               (log[j].ev = "invoke" /\ log[k].ev = "invoke" /\ j # k) =>
                 log[j].pos # log[k].pos)

\* every layer of a stack of three was invoked once, the last handler has
\* called the continuation past the end, no handler twice
C20_Witness ==
  /\ Len(stack) = 3
  /\ NoReentry
  /\ Len(Invokes) = 3
  /\ idx = Len(stack) + 1
  /\ PlainCalls = 4
  /\ Len(Dones) = 1

\* ---------------------------------------------------------------- C21
\* C21: sendfile calls its callback at most once, whatever the order and
\* number of the events of the file stream, of the notifications that the
\* response has finished and of the deferred checks.  The callback has been
\* called exactly when the helper's flag is set, and from then on no event
\* leads to a call of it, of the caller's callback or of next.
C21_CallbackAtMostOnce ==
  /\ [](Len(xfer.callbacks) <= 1)
  /\ [](xfer.fin <=> Len(xfer.callbacks) = 1)
  /\ [][xfer.fin =>
          /\ xfer'.fin
          /\ xfer'.callbacks = xfer.callbacks
          /\ xfer'.doneCalls = xfer.doneCalls
          /\ xfer'.nextCalls = xfer.nextCalls]_vars

\* the end of the file was reported while a deferred check is still waiting,
\* after the stream had announced the file
C21_Witness ==
  /\ xfer.state = "open"
  /\ xfer.fin
  /\ xfer.callbacks = <<"none">>
  /\ xfer.immediates = 1
  /\ xfer.streaming = "false"

\* ---------------------------------------------------------------- C22
\* C22: where the outcome of a sendFile transfer goes.  Before the transfer
\* completes nobody is called.  When it completes and the caller gave a
\* callback (as third argument, or as second in place of the options), that
\* callback is called once with the outcome and next is not called.  Without
\* a callback: EISDIR calls next(), ECONNABORTED and an error of a write
\* call nothing, any other error calls next(err), success calls nothing.
C22_OutcomeGoesToCallbackOrNext ==
  IF xfer.callbacks = <<>>
  THEN xfer.doneCalls = <<>> /\ xfer.nextCalls = <<>>
  ELSE LET err == xfer.callbacks[1]
       IN IF xfer.done # "none"
          THEN /\ xfer.doneCalls = <<[fn |-> xfer.done, err |-> err]>>
               /\ xfer.nextCalls = <<>>
          ELSE /\ xfer.doneCalls = <<>>
               /\ xfer.nextCalls =
                    (IF err = "EISDIR" THEN << <<>> >>
                     ELSE IF err \in {"ECONNABORTED", "EPIPE/write", "none"} THEN <<>>
                     ELSE << <<err>> >>)

\* a transfer without a callback has ended on a directory: next() was called
C22_Witness ==
  /\ xfer.state = "open"
  /\ xfer.done = "none"
  /\ xfer.callbacks = <<"EISDIR">>
  /\ xfer.nextCalls = << <<>> >>
  /\ xfer.doneCalls = <<>>

\* ---------------------------------------------------------------- C23
\* the calls the most recent res.end or res.send has made on the connection
AddedOps == SubSeq(conn'.ops, Len(conn.ops) + 1, Len(conn'.ops))

\* C23: res.end(chunk) ends the connection exactly when chunk is a non-empty
\* string or a Buffer, and then by cork, end(chunk), uncork in this order.
\* With no chunk, null, the empty string or a function in place of the
\* chunk it returns without any call on the connection, so that no callback
\* is handed on; every other chunk makes it throw, again without a call on
\* the connection.  send(null) and send('') therefore leave the connection
\* as it is.
C23_EndsOnlyOnStringOrBuffer ==
  [][conn'.calls = conn.calls + 1 =>
       LET c == conn'.last
       IN /\ SubSeq(conn'.ops, 1, Len(conn.ops)) = conn.ops
          /\ c.method = "end" =>
               IF c.chunk \in {"text", "Buffer", "empty Buffer"}
               THEN /\ Len(AddedOps) = 3
                    /\ AddedOps[1] = <<"cork">>
                    /\ AddedOps[2][1] = "end" /\ AddedOps[2][2] = c.chunk
                    /\ AddedOps[3] = <<"uncork">>
                    /\ c.status = "returned this"
               ELSE /\ AddedOps = <<>>
                    /\ c.chunk \in {"undefined", "null", "", "function"} =>
                         c.status = "returned this"
          /\ (c.method = "send" /\ c.chunk \in {"null", ""}) =>
               /\ AddedOps = <<>>
               /\ c.status = "returned this"
    ]_vars

\* end('text') was followed by end(callback): the connection saw cork, end,
\* uncork once, and nothing of the second call
C23_Witness ==
  /\ conn.calls = 2
  /\ conn.ops = Ended("text", "undefined", "undefined")
  /\ conn.last.method = "end"
  /\ conn.last.chunk = "function"
  /\ conn.last.status = "returned this"

====
